---- MODULE Spec2Model ----
(***************************************************************************)
(* A model of the distributed lock state machine described in              *)
(* "Implementing a Distributed Lock State Machine": a Postgres table       *)
(* (spreadsheets.request_queue) is the hand-off plane between a front-end  *)
(* that INSERTs requests and any number of back-end processes that claim   *)
(* rows under commitment control (BEGIN / COMMIT / ROLLBACK) with          *)
(* FOR UPDATE SKIP LOCKED and FOR UPDATE NOWAIT row locks.                 *)
(*                                                                         *)
(* The database is modelled at READ COMMITTED: request_queue holds the     *)
(* committed rows, uncommitted[w] the row versions written by the open     *)
(* transaction of back-end process w (visible to w alone), and locks[w]    *)
(* the rows whose row lock that transaction holds.                         *)
(***************************************************************************)
EXTENDS Integers, Sequences, FiniteSets, TLC

\* Bounds of the model.
NumWorkers == 2
MaxRows == 3
NumSpreadsheets == 2

\* Program constants.
NoProcess == 0      \* process_id TEXT, NULL until a process takes the row
LineStart == 0      \* the "line-in-the-sand" at application start-up
NoRow == 0          \* the searched UPDATE returned no row (identities begin at 1)

Workers == 1..NumWorkers
Spreadsheets == 1..NumSpreadsheets
RequestStatus == {"new", "in-progress", "complete", "error"}
RequestType == {"create", "update"}
Settled == {"complete", "error"}

VARIABLES
  request_queue,  \* the committed rows of spreadsheets.request_queue; request_queue_id is the index
  locks,          \* locks[w]: rows locked by the open transaction of process w
  uncommitted,    \* uncommitted[w]: row versions written by the open transaction of w
  pc,             \* pc[w]: where back-end process w is in its loop
  line,           \* line[w]: the "line-in-the-sand" of w
  found,          \* found[w]: request_queue_id returned by the searched UPDATE
  worked,         \* worked[w]: some request was found and processed in this turn
  processId,      \* processId[w]: the UUID generated for the request being processed
  outcome,        \* outcome[w]: 'complete' or 'error', once the work is done
  listening,      \* listening[w]: w has executed LISTEN spreadsheets_request_queue
  notified,       \* notified[w]: a notification is waiting for w
  lost,           \* lost[w]: rows whose pending changes the last death of w rolled back
  counter,        \* DynamoDB row ticket-master/current: its ticketNumber, or NoCounter
  queue,          \* the queue rows of the locked entity: ticket number (sk) |-> expiresAt
  now,            \* Date.now() / 1000, in units of the heartbeat interval
  tpc,            \* tpc[p]: where process p is in taking and holding the lock
  ticket,         \* ticket[p]: the ticketNumber of p, once determined
  beating         \* beating[p]: the heartbeat interval of p is set

requestVars == <<request_queue, locks, uncommitted, pc, line, found, worked,
                 processId, outcome, listening, notified, lost>>

ticketVars == <<counter, queue, now, tpc, ticket, beating>>

vars == <<request_queue, locks, uncommitted, pc, line, found, worked,
          processId, outcome, listening, notified, lost,
          counter, queue, now, tpc, ticket, beating>>

RowIds == 1..Len(request_queue)

NoChanges == [i \in {} |-> NoRow]

\* The row as process w reads it: its own pending change, else the committed row.
Visible(w, i) ==
  IF i \in DOMAIN uncommitted[w] THEN uncommitted[w][i] ELSE request_queue[i]

\* The row is locked to another process.
LockedByOther(w, i) == \E v \in Workers \ {w} : i \in locks[v]

\* The status of the row version that is current: the pending one of the
\* transaction that updated it, else the committed one.
RowStatus(i) ==
  IF \E w \in Workers : i \in DOMAIN uncommitted[w]
  THEN (CHOOSE s \in RequestStatus :
          \E w \in Workers : i \in DOMAIN uncommitted[w]
                             /\ uncommitted[w][i].request_status = s)
  ELSE request_queue[i].request_status

----------------------------------------------------------------------------
\* The front-end.

\* A table without the unique index.
NoIndex(type, sid) == TRUE

\* CREATE UNIQUE INDEX request_queue_01 (spreadsheet_id, request_type)
\* WHERE request_type = 'create'.
UniqueIndexOk(type, sid) ==
  type = "create" =>
    ~\E i \in RowIds : /\ request_queue[i].spreadsheet_id = sid
                       /\ request_queue[i].request_type = "create"

\* (A NOTIFY that reaches nobody.)
NotifyNobody == notified

\* NOTIFY spreadsheets_request_queue: only clients already listening receive
\* it, and it awakens the back-end that is idle; a back-end that is already
\* searching for work goes on, and waits "once more" for a NOTIFY only when
\* it has entered the idle state.
Notify ==
  [w \in Workers |-> notified[w] \/ (listening[w] /\ pc[w] = "idle")]

\* INSERT INTO spreadsheets.request_queue ...; NOTIFY spreadsheets_request_queue.
Enqueue(type, sid) ==
  /\ Len(request_queue) < MaxRows
  /\ UniqueIndexOk(type, sid)
  /\ request_queue' = Append(request_queue,
        [request_status |-> "new", request_type |-> type,
         process_id |-> NoProcess, spreadsheet_id |-> sid])
  /\ notified' = Notify
  /\ UNCHANGED <<locks, uncommitted, pc, line, found, worked, processId,
                 outcome, listening, lost>>
  /\ UNCHANGED ticketVars

----------------------------------------------------------------------------
\* The back-end: start-up, notifications.

\* A start-up whose NOTIFY does not reach the back-end itself.
NoPriming(w) == Notify

\* client.query('NOTIFY spreadsheets_request_queue') by the back-end itself,
\* after its LISTEN: it receives its own notification.
PrimeThePump(w) == [v \in Workers |-> v = w \/ Notify[v]]

\* Start-up: LISTEN, then the self-notification that primes the pump.
Start(w) ==
  /\ pc[w] = "down"
  /\ pc' = [pc EXCEPT ![w] = "idle"]
  /\ listening' = [listening EXCEPT ![w] = TRUE]
  /\ notified' = PrimeThePump(w)
  /\ line' = [line EXCEPT ![w] = LineStart]
  /\ lost' = [lost EXCEPT ![w] = {}]
  /\ UNCHANGED <<request_queue, locks, uncommitted, found, worked, processId, outcome>>
  /\ UNCHANGED ticketVars

\* client.on('notification', ...): the idle back-end is awakened and starts
\* searching for work.
Wake(w) ==
  /\ pc[w] = "idle"
  /\ notified[w]
  /\ pc' = [pc EXCEPT ![w] = "search"]
  /\ notified' = [notified EXCEPT ![w] = FALSE]
  /\ UNCHANGED <<request_queue, locks, uncommitted, line, found, worked,
                 processId, outcome, listening, lost>>
  /\ UNCHANGED ticketVars

----------------------------------------------------------------------------
\* Searching for work.

\* uuid(): a value no row carries.
UsedProcessIds ==
  {request_queue[i].process_id : i \in RowIds}
    \cup UNION {{uncommitted[w][i].process_id : i \in DOMAIN uncommitted[w]} : w \in Workers}
    \cup {processId[w] : w \in Workers}

\* (One identifier used for every request: not generated for each.)
OneProcessId == NoProcess + 1

\* "generated at run-time for each request being processed"
NewProcessId ==
  CHOOSE p \in 1..(Cardinality(UsedProcessIds) + 1) : p \notin UsedProcessIds

\* A search that would also take 'error' rows again.
SearchWhereRetry(w) ==
  {i \in RowIds : Visible(w, i).request_status \in {"new", "error"} /\ i > line[w]}

\* (A search without the line-in-the-sand.)
SearchWhereNoLine(w) ==
  {i \in RowIds : Visible(w, i).request_status = "new"}

\* WHERE request_status = 'new' AND request_queue_id > $2
SearchWhere(w) ==
  {i \in RowIds : Visible(w, i).request_status = "new" /\ i > line[w]}

\* FOR UPDATE SKIP LOCKED
SkipNothing(w, rows) == rows

SkipLocked(w, rows) == {i \in rows : ~LockedByOther(w, i)}

\* ORDER BY request_queue_id FETCH FIRST ROW ONLY
FetchLastRow(rows) ==
  IF rows = {} THEN NoRow ELSE CHOOSE i \in rows : \A j \in rows : i >= j

FetchFirstRow(rows) ==
  IF rows = {} THEN NoRow ELSE CHOOSE i \in rows : \A j \in rows : i <= j

SearchedUpdate(w) == FetchFirstRow(SkipLocked(w, SearchWhere(w)))

\* SET process_id = $1, request_status = 'in-progress'
Allocate(row, pid) ==
  [row EXCEPT !.process_id = pid, !.request_status = "in-progress"]

\* BEGIN; the searched UPDATE returns a row, which is now locked to w.
Search(w) ==
  /\ pc[w] = "search"
  /\ SearchedUpdate(w) # NoRow
  /\ LET i == SearchedUpdate(w)
         pid == NewProcessId
     IN /\ found' = [found EXCEPT ![w] = i]
        /\ processId' = [processId EXCEPT ![w] = pid]
        /\ locks' = [locks EXCEPT ![w] = {i}]
        /\ uncommitted' = [uncommitted EXCEPT ![w] = (i :> Allocate(request_queue[i], pid))]
        /\ pc' = [pc EXCEPT ![w] =
                    IF request_queue[i].request_type = "create" THEN "work" ELSE "validate"]
  /\ UNCHANGED <<request_queue, line, worked, outcome, listening, notified, lost>>
  /\ UNCHANGED ticketVars

\* No more rows are returned by the search: the turn is complete and the
\* line-in-the-sand resets; the back-end iterates again if work was performed
\* in the turn, and enters the idle state otherwise.
NeverAgain(w) == FALSE

IterateIfNewRows(w) ==
  worked[w] /\ \E i \in RowIds : request_queue[i].request_status = "new"

IterateAgain(w) == worked[w]

\* (A turn after which the search would go on from where it stands.)
KeepLine(w) == line

\* "After each complete turn of looking through the request table, the
\* line-in-the-sand state variable will reset to its initial value of 0".
ResetLine(w) == [line EXCEPT ![w] = LineStart]

NoMoreRows(w) ==
  /\ pc[w] = "search"
  /\ SearchedUpdate(w) = NoRow
  /\ pc' = [pc EXCEPT ![w] = IF IterateAgain(w) THEN "search" ELSE "idle"]
  /\ line' = ResetLine(w)
  /\ worked' = [worked EXCEPT ![w] = FALSE]
  /\ UNCHANGED <<request_queue, locks, uncommitted, found, processId, outcome,
                 listening, notified, lost>>
  /\ UNCHANGED ticketVars

----------------------------------------------------------------------------
\* Validation and grouping of update requests.

\* The end of a transaction (COMMIT, ROLLBACK, or the death of its process)
\* releases its row locks; ROLLBACK undoes its pending changes.
\* (A transaction end that would leave the row locks in place.)
KeepLocks(w) == locks

ReleaseLocks(w) == [locks EXCEPT ![w] = {}]

KeepChanges(w) == uncommitted

UndoChanges(w) == [uncommitted EXCEPT ![w] = NoChanges]

\* The statement raised SQL state 55P03 and the back-end executes ROLLBACK:
\* the prior UPDATE is undone, the locks are released, the row is skipped
\* and the line-in-the-sand is set to the identity of the request found.
\* (Postgres aborts the transaction, releasing its locks, as soon as the
\* statement fails; the ROLLBACK that follows ends the transaction block.)
Rollback(w) ==
  /\ uncommitted' = UndoChanges(w)
  /\ locks' = ReleaseLocks(w)
  /\ line' = [line EXCEPT ![w] = found[w]]
  /\ found' = [found EXCEPT ![w] = NoRow]
  /\ processId' = [processId EXCEPT ![w] = NoProcess]
  /\ pc' = [pc EXCEPT ![w] = "search"]
  /\ UNCHANGED <<request_queue, worked, outcome, listening, notified, lost>>
  /\ UNCHANGED ticketVars

\* A row the statement must lock is locked to another process.
LockNotAvailable(w, rows) == \E i \in rows : LockedByOther(w, i)

\* FOR UPDATE NOWAIT: "do not wait if the row is locked"; the statement
\* raises SQL state 55P03 at once. (Without the clause it would wait for the
\* lock and raise nothing.)
Wait(w, rows) == FALSE

NoWait(w, rows) == LockNotAvailable(w, rows)

\* (A back-end that would not check the create request at all.)
NoCreateCheck(w, sid) == {}

\* WHERE spreadsheet_id = $1 AND request_type = 'create'
\*   AND request_status NOT IN ('complete', 'error')
CreateNotSettled(w, sid) ==
  {i \in RowIds : /\ Visible(w, i).spreadsheet_id = sid
                  /\ Visible(w, i).request_type = "create"
                  /\ Visible(w, i).request_status \notin Settled}

\* The SELECT ... FOR UPDATE NOWAIT raises no exception; the rows it selects
\* (if any) are locked to w.
Validate(w) ==
  /\ pc[w] = "validate"
  /\ LET rows == CreateNotSettled(w, request_queue[found[w]].spreadsheet_id)
     IN /\ ~LockNotAvailable(w, rows)
        /\ locks' = [locks EXCEPT ![w] = @ \cup rows]
  /\ pc' = [pc EXCEPT ![w] = "group"]
  /\ UNCHANGED <<request_queue, uncommitted, line, found, worked, processId,
                 outcome, listening, notified, lost>>
  /\ UNCHANGED ticketVars

\* The SELECT raises 55P03: the create request is locked to another process.
\* The back-end rolls back the prior UPDATE and skips the row.
ValidateLocked(w) ==
  /\ pc[w] = "validate"
  /\ NoWait(w, CreateNotSettled(w, request_queue[found[w]].spreadsheet_id))
  /\ Rollback(w)

\* WHERE spreadsheet_id = $2 AND request_type = 'update'
\*   AND request_status NOT IN ('complete', 'error')
UnlockedUpdates(w, sid) ==
  {i \in RowIds : /\ Visible(w, i).spreadsheet_id = sid
                  /\ Visible(w, i).request_type = "update"
                  /\ Visible(w, i).request_status \notin Settled
                  /\ ~LockedByOther(w, i)}

AllUpdates(w, sid) ==
  {i \in RowIds : /\ Visible(w, i).spreadsheet_id = sid
                  /\ Visible(w, i).request_type = "update"}

UpdatesOfAnySpreadsheet(w, sid) ==
  {i \in RowIds : /\ Visible(w, i).request_type = "update"
                  /\ Visible(w, i).request_status \notin Settled}

OutstandingUpdates(w, sid) ==
  {i \in RowIds : /\ Visible(w, i).spreadsheet_id = sid
                  /\ Visible(w, i).request_type = "update"
                  /\ Visible(w, i).request_status \notin Settled}

\* The group-up searched UPDATE: every outstanding update request of the
\* spreadsheet is locked and allocated to the same process id.
GroupUp(w) ==
  /\ pc[w] = "group"
  /\ LET rows == OutstandingUpdates(w, request_queue[found[w]].spreadsheet_id)
     IN /\ ~LockNotAvailable(w, rows)
        /\ locks' = [locks EXCEPT ![w] = @ \cup rows]
        /\ uncommitted' = [uncommitted EXCEPT ![w] =
              [i \in (DOMAIN @) \cup rows |->
                 IF i \in rows THEN Allocate(Visible(w, i), processId[w]) ELSE @[i]]]
  /\ pc' = [pc EXCEPT ![w] = "work"]
  /\ UNCHANGED <<request_queue, line, found, worked, processId, outcome,
                 listening, notified, lost>>
  /\ UNCHANGED ticketVars

\* The group-up UPDATE fails: a concurrent back-end is already updating the
\* spreadsheet. As before a ROLLBACK occurs.
GroupUpLocked(w) ==
  /\ pc[w] = "group"
  /\ NoWait(w, OutstandingUpdates(w, request_queue[found[w]].spreadsheet_id))
  /\ Rollback(w)

----------------------------------------------------------------------------
\* Progressing through the requests.

\* The spreadsheet is created or updated (googleapis; not under commitment control).
Work(w) ==
  /\ pc[w] = "work"
  /\ \E result \in Settled : outcome' = [outcome EXCEPT ![w] = result]
  /\ pc' = [pc EXCEPT ![w] = "settle"]
  /\ UNCHANGED <<request_queue, locks, uncommitted, line, found, worked,
                 processId, listening, notified, lost>>
  /\ UNCHANGED ticketVars

\* WHERE process_id = $1
FoundOnly(w, pid) == {found[w]}

AllocatedTo(w, pid) == {i \in RowIds : Visible(w, i).process_id = pid}

\* (A settlement after which the search would begin where it began before.)
SameLine(w) == line

\* "the search begins after the request_queue_id found previously"
AfterFound(w) == [line EXCEPT ![w] = found[w]]

\* UPDATE ... SET request_status = 'complete' (or 'error') WHERE process_id = $1;
\* COMMIT. The next search begins after the request_queue_id found previously.
Settle(w) ==
  /\ pc[w] = "settle"
  /\ LET rows == AllocatedTo(w, processId[w])
     IN /\ ~LockNotAvailable(w, rows)   \* a plain UPDATE waits for a locked row
        /\ request_queue' =
             [i \in RowIds |->
                IF i \in rows
                THEN [Visible(w, i) EXCEPT !.request_status = outcome[w]]
                ELSE Visible(w, i)]
  /\ uncommitted' = [uncommitted EXCEPT ![w] = NoChanges]
  /\ locks' = ReleaseLocks(w)
  /\ line' = AfterFound(w)
  /\ worked' = [worked EXCEPT ![w] = TRUE]
  /\ found' = [found EXCEPT ![w] = NoRow]
  /\ processId' = [processId EXCEPT ![w] = NoProcess]
  /\ outcome' = [outcome EXCEPT ![w] = "none"]
  /\ pc' = [pc EXCEPT ![w] = "search"]
  /\ UNCHANGED <<listening, notified, lost>>
  /\ UNCHANGED ticketVars

----------------------------------------------------------------------------
\* The back-end dies suddenly (server outage, run time error, out of memory):
\* the database manager rolls the uncommitted changes back and the connection,
\* with its LISTEN, is gone.
Die(w) ==
  /\ pc[w] # "down"
  /\ lost' = [lost EXCEPT ![w] = DOMAIN uncommitted[w]]
  /\ uncommitted' = UndoChanges(w)
  /\ locks' = ReleaseLocks(w)
  /\ pc' = [pc EXCEPT ![w] = "down"]
  /\ line' = [line EXCEPT ![w] = LineStart]
  /\ found' = [found EXCEPT ![w] = NoRow]
  /\ worked' = [worked EXCEPT ![w] = FALSE]
  /\ processId' = [processId EXCEPT ![w] = NoProcess]
  /\ outcome' = [outcome EXCEPT ![w] = "none"]
  /\ listening' = [listening EXCEPT ![w] = FALSE]
  /\ notified' = [notified EXCEPT ![w] = FALSE]
  /\ UNCHANGED request_queue
  /\ UNCHANGED ticketVars

----------------------------------------------------------------------------
(***************************************************************************)
(* "Distributed Locking in DynamoDB": a FIFO lock on one entity. A process *)
(* takes a ticket number from an atomic counter (row ticket-master/current *)
(* of the table), creates a queue row whose sort key is the ticket number, *)
(* polls the queue until the first row that is not expired is its own,     *)
(* refreshes the expiration of its row by a heartbeat, and deletes the row *)
(* after its work. Time is counted in heartbeat intervals (30 seconds).    *)
(* The record wait is Infinity: a process never stops waiting.             *)
(***************************************************************************)

\* Bounds of the model.
NumProcesses == 3
MaxTime == 3

\* Program constants.
NoCounter == 0      \* the counter row does not exist (ticket numbers begin at 1)
NoTicket == 0       \* the ticket number of the process is not determined yet
FirstTicket == 1    \* let ticketNumber = 1: the increment and the seed value
TimeToLive == 2     \* expiresAt: now + 60, two heartbeat intervals of 30 seconds

Processes == 1..NumProcesses

\* The queue without the row of ticket number t.
DeleteRow(t) == [u \in DOMAIN queue \ {t} |-> queue[u]]

\* entry.expiresAt < now
Expired(t) == queue[t] < now

\* client.update with ConditionExpression 'attribute_exists(pk)' and
\* UpdateExpression 'SET ticketNumber = ticketNumber + :ticketNumber',
\* ReturnValues 'UPDATED_NEW'; when the condition fails the process goes to
\* onFailure.
AtomicIncrement(p, onFailure) ==
  IF counter # NoCounter
  THEN /\ counter' = counter + FirstTicket
       /\ ticket' = [ticket EXCEPT ![p] = counter + FirstTicket]
       /\ tpc' = [tpc EXCEPT ![p] = "enqueue"]
  ELSE /\ tpc' = [tpc EXCEPT ![p] = onFailure]
       /\ UNCHANGED <<counter, ticket>>

\* The atomic counter increment; the failure is trapped to seed the value.
UpdateCounter(p) ==
  /\ tpc[p] = "start"
  /\ AtomicIncrement(p, "seed")
  /\ UNCHANGED <<queue, now, beating>>
  /\ UNCHANGED requestVars

\* (A put without the condition expression.)
Unconditional == TRUE

\* (A put whose condition fails although the row does not exist.)
PutFails == FALSE

\* ConditionExpression 'attribute_not_exists(pk)' of the seeding put.
CounterNotExists == counter = NoCounter

\* client.put of the initial value; when a competing process was first the
\* condition fails and the update is retried.
SeedCounter(p) ==
  /\ tpc[p] = "seed"
  /\ IF CounterNotExists
     THEN /\ counter' = FirstTicket
          /\ ticket' = [ticket EXCEPT ![p] = FirstTicket]
          /\ tpc' = [tpc EXCEPT ![p] = "enqueue"]
     ELSE /\ tpc' = [tpc EXCEPT ![p] = "retry"]
          /\ UNCHANGED <<counter, ticket>>
  /\ UNCHANGED <<queue, now, beating>>
  /\ UNCHANGED requestVars

\* "retry the first update statement a second time"; a failure of it is not
\* trapped: the process ends without a ticket number.
RetryUpdate(p) ==
  /\ tpc[p] = "retry"
  /\ AtomicIncrement(p, "failed")
  /\ UNCHANGED <<queue, now, beating>>
  /\ UNCHANGED requestVars

\* client.put of the queue row, ConditionExpression 'attribute_not_exists(pk)',
\* expiresAt: now + 60; the heartbeat interval is set.
EnterQueue(p) ==
  /\ tpc[p] = "enqueue"
  /\ IF ticket[p] \notin DOMAIN queue
     THEN /\ queue' = [t \in DOMAIN queue \cup {ticket[p]} |->
                         IF t = ticket[p] THEN now + TimeToLive ELSE queue[t]]
          /\ beating' = [beating EXCEPT ![p] = TRUE]
          /\ tpc' = [tpc EXCEPT ![p] = "waiting"]
     ELSE /\ tpc' = [tpc EXCEPT ![p] = "crashed"]
          /\ UNCHANGED <<queue, beating>>
  /\ UNCHANGED <<counter, now, ticket>>
  /\ UNCHANGED requestVars


\* The loop over the queried entries, ScanIndexForward: an expired entry is
\* passed over, the first entry that is not expired decides, and the result
\* of a loop that ends without a decision is undefined (not true).
RECURSIVE ScanEntries(_, _)
ScanEntries(p, rows) ==
  IF rows = {}
  THEN FALSE
  ELSE LET entry == CHOOSE t \in rows : \A u \in rows : t <= u
       IN  IF Expired(entry)
           THEN ScanEntries(p, rows \ {entry})
           ELSE entry = ticket[p]

\* (A check that does not look at the expiration.)
FirstRowIsOwn(p) ==
  /\ DOMAIN queue # {}
  /\ \A u \in DOMAIN queue : ticket[p] <= u

\* Checking the queue position.
CheckPosition(p) == ScanEntries(p, DOMAIN queue)

\* One poll of the queue: at the front the process proceeds with its work,
\* otherwise it sleeps and checks again.
CheckQueue(p) ==
  /\ tpc[p] = "waiting"
  /\ tpc' = [tpc EXCEPT ![p] = IF CheckPosition(p) THEN "working" ELSE "waiting"]
  /\ UNCHANGED <<counter, queue, now, ticket, beating>>
  /\ UNCHANGED requestVars

\* (An update without the condition expression: it writes the row anew.)
NoCondition(p) == TRUE

\* ConditionExpression 'attribute_exists(pk)' of the heartbeat.
RowExists(p) == ticket[p] \in DOMAIN queue

\* The lock heartbeat: client.update, SET expiresAt = now + 60, under the
\* condition that the row exists (an update writes the row it does not find,
\* unless a condition forbids it).
Heartbeat(p) ==
  /\ beating[p]
  /\ queue' = IF RowExists(p)
              THEN [t \in DOMAIN queue \cup {ticket[p]} |->
                      IF t = ticket[p] THEN now + TimeToLive ELSE queue[t]]
              ELSE queue
  /\ UNCHANGED <<counter, now, tpc, ticket, beating>>
  /\ UNCHANGED requestVars

\* After completing its work the process deletes its queue entry.
Complete(p) ==
  /\ tpc[p] = "working"
  /\ queue' = DeleteRow(ticket[p])
  /\ tpc' = [tpc EXCEPT ![p] = "done"]
  /\ UNCHANGED <<counter, now, ticket, beating>>
  /\ UNCHANGED requestVars

\* The heartbeat interval is cleared once the process completed its work.
ClearHeartbeat(p) ==
  /\ tpc[p] = "done"
  /\ beating[p]
  /\ beating' = [beating EXCEPT ![p] = FALSE]
  /\ UNCHANGED <<counter, queue, now, tpc, ticket>>
  /\ UNCHANGED requestVars

\* A process fails: it does nothing more and refreshes its row no more.
Crash(p) ==
  /\ tpc[p] \notin {"done", "crashed", "failed"}
  /\ tpc' = [tpc EXCEPT ![p] = "crashed"]
  /\ beating' = [beating EXCEPT ![p] = FALSE]
  /\ UNCHANGED <<counter, queue, now, ticket>>
  /\ UNCHANGED requestVars

\* An expired row is removed, proactively by a process or lazily by the
\* TTL feature of DynamoDB.
RemoveExpired(t) ==
  /\ t \in DOMAIN queue
  /\ Expired(t)
  /\ queue' = DeleteRow(t)
  /\ UNCHANGED <<counter, now, tpc, ticket, beating>>
  /\ UNCHANGED requestVars

\* One heartbeat interval passes.
Tick ==
  /\ now < MaxTime
  /\ now' = now + 1
  /\ UNCHANGED <<counter, queue, tpc, ticket, beating>>
  /\ UNCHANGED requestVars

\* The steps of a process other than its heartbeat.
Process(p) ==
  \/ UpdateCounter(p)
  \/ SeedCounter(p)
  \/ RetryUpdate(p)
  \/ EnterQueue(p)
  \/ CheckQueue(p)
  \/ Complete(p)
  \/ ClearHeartbeat(p)

----------------------------------------------------------------------------
Init ==
  /\ request_queue = <<>>
  /\ locks = [w \in Workers |-> {}]
  /\ uncommitted = [w \in Workers |-> NoChanges]
  /\ pc = [w \in Workers |-> "down"]
  /\ line = [w \in Workers |-> LineStart]
  /\ found = [w \in Workers |-> NoRow]
  /\ worked = [w \in Workers |-> FALSE]
  /\ processId = [w \in Workers |-> NoProcess]
  /\ outcome = [w \in Workers |-> "none"]
  /\ listening = [w \in Workers |-> FALSE]
  /\ notified = [w \in Workers |-> FALSE]
  /\ lost = [w \in Workers |-> {}]
  /\ counter = NoCounter
  /\ queue = [t \in {} |-> NoCounter]
  /\ now = 0
  /\ tpc = [p \in Processes |-> "start"]
  /\ ticket = [p \in Processes |-> NoTicket]
  /\ beating = [p \in Processes |-> FALSE]

Next ==
  \/ \E type \in RequestType, sid \in Spreadsheets : Enqueue(type, sid)
  \/ \E w \in Workers : Start(w)
  \/ \E w \in Workers : Wake(w)
  \/ \E w \in Workers : Search(w)
  \/ \E w \in Workers : NoMoreRows(w)
  \/ \E w \in Workers : Validate(w)
  \/ \E w \in Workers : ValidateLocked(w)
  \/ \E w \in Workers : GroupUp(w)
  \/ \E w \in Workers : GroupUpLocked(w)
  \/ \E w \in Workers : Work(w)
  \/ \E w \in Workers : Settle(w)
  \/ \E w \in Workers : Die(w)

Spec == Init /\ [][Next]_vars

\* The steps of back-end process w.
BackEnd(w) ==
  \/ Start(w)
  \/ Wake(w)
  \/ Search(w)
  \/ NoMoreRows(w)
  \/ Validate(w)
  \/ ValidateLocked(w)
  \/ GroupUp(w)
  \/ GroupUpLocked(w)
  \/ Work(w)
  \/ Settle(w)

\* No back-end dies, and every back-end keeps running: it starts, and once
\* awake it takes its next step (the work on a spreadsheet ends).
NextAlive ==
  \/ \E type \in RequestType, sid \in Spreadsheets : Enqueue(type, sid)
  \/ \E w \in Workers : BackEnd(w)

LiveSpec == Init /\ [][NextAlive]_vars /\ \A w \in Workers : WF_vars(BackEnd(w))

\* A run with a single back-end process: the others never start. (With one
\* process no row is ever locked to another, so no statement raises 55P03.)
Solo == CHOOSE w \in Workers : \A v \in Workers : w <= v

SoloBackEnd ==
  \/ Start(Solo)
  \/ Wake(Solo)
  \/ Search(Solo)
  \/ NoMoreRows(Solo)
  \/ Validate(Solo)
  \/ GroupUp(Solo)
  \/ Work(Solo)
  \/ Settle(Solo)

NextSolo ==
  \/ \E type \in RequestType, sid \in Spreadsheets : Enqueue(type, sid)
  \/ SoloBackEnd
  \/ Die(Solo)

SoloSpec == Init /\ [][NextSolo]_vars

\* The single back-end keeps running and does not die.
NextSoloAlive ==
  \/ \E type \in RequestType, sid \in Spreadsheets : Enqueue(type, sid)
  \/ SoloBackEnd

SoloLiveSpec == Init /\ [][NextSoloAlive]_vars /\ WF_vars(SoloBackEnd)

\* A run in which every back-end is listening before the front-end writes a
\* request: the back-ends start while the table is empty, and the front-end
\* inserts a request only when all of them are listening. A back-end may die
\* at any time.
StartFirst(w) == request_queue = <<>> /\ Start(w)

EnqueueToListeners(type, sid) ==
  /\ \A w \in Workers : listening[w]
  /\ Enqueue(type, sid)

NextListening ==
  \/ \E type \in RequestType, sid \in Spreadsheets : EnqueueToListeners(type, sid)
  \/ \E w \in Workers : StartFirst(w)
  \/ \E w \in Workers : Wake(w)
  \/ \E w \in Workers : Search(w)
  \/ \E w \in Workers : NoMoreRows(w)
  \/ \E w \in Workers : Validate(w)
  \/ \E w \in Workers : ValidateLocked(w)
  \/ \E w \in Workers : GroupUp(w)
  \/ \E w \in Workers : GroupUpLocked(w)
  \/ \E w \in Workers : Work(w)
  \/ \E w \in Workers : Settle(w)
  \/ \E w \in Workers : Die(w)

ListeningSpec == Init /\ [][NextListening]_vars

\* The ticket queue: any interleaving of the processes, their heartbeats,
\* failures, the removal of expired rows and the passing of time. (A
\* heartbeat may be late by any amount of time.)
TicketNext ==
  \/ \E p \in Processes : UpdateCounter(p)
  \/ \E p \in Processes : SeedCounter(p)
  \/ \E p \in Processes : RetryUpdate(p)
  \/ \E p \in Processes : EnterQueue(p)
  \/ \E p \in Processes : CheckQueue(p)
  \/ \E p \in Processes : Heartbeat(p)
  \/ \E p \in Processes : Complete(p)
  \/ \E p \in Processes : ClearHeartbeat(p)
  \/ \E p \in Processes : Crash(p)
  \/ \E t \in DOMAIN queue : RemoveExpired(t)
  \/ Tick

TicketSpec == Init /\ [][TicketNext]_vars

\* Time passes only when no row of a process whose heartbeat is set would
\* pass its expiration: every heartbeat comes in time (setInterval 30000
\* against a time to live of 60).
TimelyTick ==
  /\ \A p \in Processes :
       (beating[p] /\ ticket[p] \in DOMAIN queue) => queue[ticket[p]] > now
  /\ Tick

TicketNextTimely ==
  \/ \E p \in Processes : Process(p)
  \/ \E p \in Processes : Heartbeat(p)
  \/ \E p \in Processes : Crash(p)
  \/ \E t \in DOMAIN queue : RemoveExpired(t)
  \/ TimelyTick

\* Every process that can take a step takes one, and every heartbeat fires.
TicketLiveSpec ==
  /\ Init
  /\ [][TicketNextTimely]_vars
  /\ \A p \in Processes : WF_vars(Process(p)) /\ WF_vars(Heartbeat(p))

----------------------------------------------------------------------------
\* Properties.

\* The rows with a pending change of process w.
Allocated(w) == DOMAIN uncommitted[w]

\* The request found by w is an update request.
FoundUpdate(w) ==
  found[w] # NoRow /\ request_queue[found[w]].request_type = "update"

\* C1. Mutual exclusion: a row is locked to at most one process at a time, a
\* row has a pending in-progress change of at most one process, and that
\* process is the one the row is locked to.
MutualExclusion ==
  \A i \in RowIds :
    /\ Cardinality({w \in Workers : i \in locks[w]}) <= 1
    /\ Cardinality({w \in Workers : i \in Allocated(w)}) <= 1
    /\ \A w \in Workers : i \in Allocated(w) => i \in locks[w]

\* Two processes raced for the same new row: w holds it, and v, searching from
\* a line before it, found a later row instead.
RaceDecided ==
  \E w \in Workers, v \in Workers, i \in RowIds :
    /\ w # v
    /\ i \in Allocated(w)
    /\ request_queue[i].request_status = "new"
    /\ line[v] < i /\ i < found[v]
    /\ found[v] \in Allocated(v)

\* C2. Dependent ordering: the check of the create request lets an update
\* request proceed only in a state where no create request of the same
\* spreadsheet is 'new' or 'in-progress'.
UpdateWaitsForCreate ==
  [][\A w \in Workers :
       (pc[w] = "validate" /\ pc'[w] = "group") =>
         ~\E i \in RowIds :
            /\ request_queue[i].spreadsheet_id = request_queue[found[w]].spreadsheet_id
            /\ request_queue[i].request_type = "create"
            /\ RowStatus(i) \in {"new", "in-progress"}]_vars

\* C3. A group of update requests reaches the work only after the create
\* request of the same spreadsheet was committed 'complete'.
UpdateAfterCompleteCreate ==
  [][\A w \in Workers :
       (pc[w] = "group" /\ pc'[w] = "work") =>
         \E i \in RowIds :
            /\ request_queue[i].spreadsheet_id = request_queue[found[w]].spreadsheet_id
            /\ request_queue[i].request_type = "create"
            /\ request_queue[i].request_status = "complete"]_vars

\* The update requests of the spreadsheet of the request w found that are
\* not settled, as committed.
GroupOf(w) ==
  {i \in RowIds :
     /\ request_queue[i].spreadsheet_id = request_queue[found[w]].spreadsheet_id
     /\ request_queue[i].request_type = "update"
     /\ request_queue[i].request_status \notin Settled}

CrashRecovery ==
  [][\A w \in Workers :
       (pc[w] # "down" /\ pc'[w] = "down") =>
         \A i \in Allocated(w) :
           /\ request_queue'[i].request_status = "new"
           /\ \A v \in Workers : i \notin locks'[v] /\ i \notin Allocated(v)'
           /\ \A v \in Workers \ {w} :
                i \in {j \in RowIds :
                         /\ request_queue'[j].request_status = "new"
                         /\ j > LineStart
                         /\ ~\E u \in Workers \ {v} : j \in locks'[u]}]_vars

\* A row that a dead process had taken is being worked on by another process.
ReclaimedAfterCrash ==
  \E w \in Workers, v \in Workers :
    /\ w # v
    /\ pc[w] = "down"
    /\ pc[v] = "work"
    /\ \E i \in lost[w] : i \in Allocated(v)

StatusTransitions ==
  [][\A i \in RowIds :
       RowStatus(i)' # RowStatus(i) =>
         <<RowStatus(i), RowStatus(i)'>> \in
           {<<"new", "in-progress">>, <<"in-progress", "complete">>,
            <<"in-progress", "error">>, <<"in-progress", "new">>}]_vars

\* Rows settled both ways exist beside a row taken back to 'new' by a ROLLBACK.
AllTransitionsSeen ==
  /\ \E i \in RowIds : request_queue[i].request_status = "complete"
  /\ \E i \in RowIds : request_queue[i].request_status = "error"
  /\ \E w \in Workers, i \in RowIds :
       pc[w] = "search" /\ line[w] = i /\ request_queue[i].request_status = "new"
                        /\ ~worked[w]

\* The rows the search of w may select: 'new', after its line-in-the-sand,
\* not locked to another process.
Eligible(w) ==
  {i \in RowIds :
     /\ request_queue[i].request_status = "new"
     /\ i > line[w]
     /\ \A v \in Workers \ {w} : i \notin locks[v]}

\* C10. The search returns the eligible row of the smallest identity, locked
\* to the searching process and taken to in-progress; it reports that no row
\* was found only when no row is eligible; and it never waits: a searching
\* process can always take one of the two steps.
SearchResult ==
  /\ [](\A w \in Workers :
          pc[w] = "search" => ENABLED (Search(w) \/ NoMoreRows(w)))
  /\ [][\A w \in Workers :
          /\ (pc[w] = "search" /\ found'[w] # NoRow) =>
               /\ found'[w] \in Eligible(w)
               /\ \A j \in Eligible(w) : found'[w] <= j
               /\ found'[w] \in locks'[w]
               /\ uncommitted'[w][found'[w]].request_status = "in-progress"
          /\ (pc[w] = "search"
                /\ (pc'[w] = "idle" \/ (pc'[w] = "search" /\ worked[w] /\ ~worked'[w]))) =>
               Eligible(w) = {}]_vars

\* A search skipped a locked row and a row before the line, and took a later one.
SearchSkipped ==
  \E w \in Workers, v \in Workers :
    /\ w # v
    /\ found[w] # NoRow
    /\ line[w] > LineStart
    /\ \E i \in locks[v] : line[w] < i /\ i < found[w]

\* The request was processed: it is 'complete' or 'error'.
IsSettled(i) == i \in RowIds /\ request_queue[i].request_status \in Settled

Passed(i) ==
  /\ i \in RowIds
  /\ request_queue[i].request_status = "new"
  /\ \E v \in Workers : i \in locks[v] /\ pc[v] \notin {"work", "settle"}

\* The row is 'new' and some process rolled back its change of it: the
\* line-in-the-sand of that process stands on the row.
RolledBack(i) ==
  /\ i \in RowIds
  /\ request_queue[i].request_status = "new"
  /\ \E w \in Workers : line[w] = i

\* The row is allocated to a process that goes on to the work.
Claimed(i) ==
  \E w \in Workers : i \in Allocated(w) /\ pc[w] \in {"work", "settle"}

----------------------------------------------------------------------------
\* The race for a row, lock conflicts, settlement.

\* The first row the search of v would select if no row were locked: 'new'
\* as committed, after its line-in-the-sand.
FirstCandidate(v) ==
  IF \E i \in RowIds : request_queue[i].request_status = "new" /\ i > line[v]
  THEN CHOOSE i \in RowIds :
         /\ request_queue[i].request_status = "new" /\ i > line[v]
         /\ \A j \in RowIds :
              (request_queue[j].request_status = "new" /\ j > line[v]) => i <= j
  ELSE NoRow

\* w and v are both about to search and the same row is first for both.
Racing(w, v, i) ==
  /\ w # v
  /\ pc[w] = "search" /\ pc[v] = "search"
  /\ i # NoRow
  /\ FirstCandidate(w) = i /\ FirstCandidate(v) = i
  /\ \A u \in Workers : i \notin locks[u]

\* v is about to search, its first candidate is locked to w, which took it.
RaceLost(w, v, i) ==
  /\ w # v
  /\ pc[v] = "search"
  /\ i # NoRow
  /\ FirstCandidate(v) = i
  /\ i \in locks[w] /\ i \in Allocated(w)

\* C11. Two processes search while the same new row is the first candidate of
\* both: the one whose searched UPDATE runs first locks the row, and only that
\* process holds it; for the other the row is as if absent: its search is a
\* step it can take at once, which returns the next eligible row or no row,
\* never the contested row, and which marks no row 'error'.
RaceHasOneWinner ==
  /\ [](\A w \in Workers, v \in Workers, i \in RowIds :
          RaceLost(w, v, i) =>
            /\ i \notin locks[v] /\ i \notin Allocated(v)
            /\ ENABLED (Search(v) \/ NoMoreRows(v)))
  /\ [][\A w \in Workers, v \in Workers, i \in RowIds :
          /\ (Racing(w, v, i) /\ found'[w] # NoRow) =>
               /\ found'[w] = i
               /\ locks'[w] = {i} /\ locks'[v] = {}
               /\ RaceLost(w, v, i)'
          /\ (RaceLost(w, v, i) /\ (found'[v] # NoRow \/ line'[v] # line[v]
                                      \/ pc'[v] \notin {"search", "down"})) =>
               /\ found'[v] # i
               /\ found'[v] # NoRow =>
                    /\ found'[v] \in Eligible(v) /\ found'[v] > i
                    /\ \A j \in Eligible(v) : found'[v] <= j
               /\ found'[v] = NoRow => (Eligible(v) = {} \/ pc'[v] = "down")
               /\ request_queue' = request_queue
               /\ i \in locks'[w] /\ i \in Allocated(w)']_vars

\* Two processes raced for a create request; the loser is about to search
\* and no other row is eligible for it.
RaceLoserFindsNothing ==
  \E w \in Workers, v \in Workers, i \in RowIds :
    /\ RaceLost(w, v, i)
    /\ request_queue[i].request_type = "create"
    /\ line[v] = LineStart
    /\ Eligible(v) = {}
    /\ Len(request_queue) >= 2

\* A row the check of the create request, or the group-up, of w needs is
\* locked to another process: a create request of the spreadsheet that is not
\* settled (while validating), an update request of it that is not settled
\* (while grouping).
LockConflict(w) ==
  /\ pc[w] \in {"validate", "group"}
  /\ \E i \in RowIds :
       /\ request_queue[i].spreadsheet_id = request_queue[found[w]].spreadsheet_id
       /\ request_queue[i].request_type = (IF pc[w] = "validate" THEN "create" ELSE "update")
       /\ request_queue[i].request_status \notin Settled
       /\ \E v \in Workers \ {w} : i \in locks[v]

\* C12. Lock-conflict recovery: a process whose check of the create request
\* or whose group-up meets a row locked to another process can only ROLLBACK
\* (or die), and a process leaves the validation or the grouping for the
\* search only in that case; after the ROLLBACK every row it had updated is
\* 'new' with no pending change, it holds no lock, its line-in-the-sand is the
\* identity of the row its search had found, it is searching again in the same
\* turn, and no committed row changed (no row is marked 'error'); every later
\* search returns a row after the line, so not the same row.
LockConflictRecovery ==
  [][\A w \in Workers :
       /\ (LockConflict(w) /\ (pc'[w] # pc[w] \/ locks'[w] # locks[w])) =>
            pc'[w] \in {"search", "down"}
       /\ (pc[w] \in {"validate", "group"} /\ pc'[w] = "search") =>
            /\ LockConflict(w)
            /\ Allocated(w) # {}
            /\ Allocated(w)' = {}
            /\ locks'[w] = {}
            /\ \A i \in Allocated(w) :
                 /\ RowStatus(i)' = "new"
                 /\ \A v \in Workers : i \notin locks'[v]
            /\ line'[w] = found[w]
            /\ found[w] \notin Eligible(w)'
            /\ worked'[w] = worked[w]
            /\ request_queue' = request_queue
       /\ (pc[w] = "search" /\ found'[w] # NoRow) => found'[w] > line[w]]_vars

\* The group-up of w failed: it rolled back an update request of a
\* spreadsheet that has no create request, whose earlier update request is
\* allocated to another process, and it is searching after the row.
GroupUpRolledBack ==
  \E w \in Workers, v \in Workers, i \in RowIds :
    /\ w # v
    /\ pc[w] = "search" /\ line[w] = i
    /\ request_queue[i].request_type = "update"
    /\ request_queue[i].request_status = "new"
    /\ \A u \in Workers : i \notin locks[u]
    /\ ~\E j \in RowIds : /\ request_queue[j].request_type = "create"
                          /\ request_queue[j].spreadsheet_id = request_queue[i].spreadsheet_id
    /\ \E j \in Allocated(v) :
         /\ j < i
         /\ request_queue[j].spreadsheet_id = request_queue[i].spreadsheet_id

ErrorIsTerminal ==
  [][/\ \A w \in Workers :
          (pc[w] = "settle" /\ outcome[w] = "error" /\ pc'[w] = "search") =>
            /\ Allocated(w) # {}
            /\ \A i \in Allocated(w) : request_queue'[i].request_status = "error"
            /\ line'[w] = found[w]
     /\ \A i \in RowIds :
          request_queue[i].request_status = "error" =>
            /\ request_queue'[i] = request_queue[i]
            /\ \A w \in Workers :
                 /\ i \notin locks[w] /\ i \notin locks'[w]
                 /\ i \notin Allocated(w)'
                 /\ found'[w] # i]_vars

\* A search passed over an 'error' row and found a later row.
ErrorRowPassedOver ==
  \E w \in Workers, i \in RowIds :
    /\ request_queue[i].request_status = "error"
    /\ line[w] < i /\ i < found[w]
    /\ pc[w] = "work"

----------------------------------------------------------------------------
\* Turns through the table and the idle state.

\* C15. A process enters the idle state from the search only when the search
\* returns no row in a turn in which no work was performed. A turn begins
\* with the line-in-the-sand at its initial value and no work performed;
\* within a turn the line only moves to the row found, the mark of work
\* performed is set by the COMMIT of a settlement and by nothing else, and it
\* is cleared only when the turn ends. So a process never enters the idle
\* state at the end of a turn in which it settled a request.
IdleOnlyAfterIdleTurn ==
  [][\A w \in Workers :
       /\ (pc[w] # "idle" /\ pc'[w] = "idle") =>
            \/ pc[w] = "down" /\ line'[w] = LineStart /\ ~worked'[w]
            \/ /\ pc[w] = "search"
               /\ Eligible(w) = {}
               /\ ~worked[w]
               /\ line'[w] = LineStart /\ ~worked'[w]
       /\ (pc[w] = "idle" /\ pc'[w] = "search") =>
            line[w] = LineStart /\ line'[w] = LineStart /\ ~worked'[w]
       /\ (pc[w] = "settle" /\ pc'[w] = "search") => worked'[w]
       /\ (~worked[w] /\ worked'[w]) => (pc[w] = "settle" /\ pc'[w] = "search")
       /\ (worked[w] /\ ~worked'[w]) =>
            \/ pc'[w] = "down"
            \/ pc[w] = "search" /\ Eligible(w) = {} /\ pc'[w] = "search"
       /\ (line'[w] # line[w]) =>
            \/ line'[w] = found[w] /\ found[w] > line[w] /\ pc'[w] = "search"
            \/ line'[w] = LineStart /\ pc'[w] = "down"
            \/ line'[w] = LineStart /\ pc[w] = "search" /\ Eligible(w) = {}]_vars

\* A process went idle at the end of a turn (no notification is pending for
\* it) while another process, which settled a request, is searching on.
IdleAfterEmptyTurn ==
  \E w \in Workers, v \in Workers :
    /\ w # v
    /\ pc[w] = "idle" /\ ~notified[w]
    /\ worked[v] /\ pc[v] = "search"
    /\ \E i \in RowIds : request_queue[i].request_status \in Settled

\* C16. After a turn in which a request was settled the process does not go
\* idle: while work was performed in the turn every step it takes from the
\* search either finds the next eligible row or, when the search returns no
\* row, resets the line-in-the-sand to its initial value, clears the mark and
\* searches again; it takes no step into the idle state while the mark is set.
IterateAfterWork ==
  [][\A w \in Workers :
       /\ worked[w] => pc'[w] # "idle"
       /\ (pc[w] = "search" /\ worked[w] /\ Eligible(w) = {}
             /\ <<pc[w], line[w], worked[w]>>' # <<pc[w], line[w], worked[w]>>) =>
            \/ pc'[w] = "down"
            \/ /\ pc'[w] = "search"
               /\ line'[w] = LineStart
               /\ ~worked'[w]
               /\ found'[w] = NoRow /\ locks'[w] = {}
       /\ (pc[w] = "search" /\ worked[w] /\ Eligible(w) # {}
             /\ <<pc[w], found[w], worked[w]>>' # <<pc[w], found[w], worked[w]>>) =>
            \/ pc'[w] = "down"
            \/ found'[w] \in Eligible(w) /\ worked'[w] /\ line'[w] = line[w]]_vars

\* A process that settled a request has come to the end of its turn: its
\* search returns no row, past a row of the table that is still 'new'.
TurnWithWorkEnds ==
  \E w \in Workers :
    /\ pc[w] = "search" /\ worked[w]
    /\ line[w] > LineStart
    /\ Eligible(w) = {}
    /\ \E i \in RowIds : request_queue[i].request_status = "new"

\* C17. Whenever a process goes from the search to the idle state, no row of
\* the table is in 'new' status (neither before nor after the step).
IdleOnlyWhenNoNewRows ==
  [][\A w \in Workers :
       (pc[w] = "search" /\ pc'[w] = "idle") =>
         /\ \A i \in RowIds : RowStatus(i) # "new"
         /\ \A i \in RowIds : RowStatus(i)' # "new"]_vars

\* C18. Priming the pump: a process that is not running is not listening and
\* no notification is kept for it, whatever is inserted meanwhile; when it
\* starts it listens and its own NOTIFY is pending for it; a process leaves
\* the idle state only on a pending notification; and a process that is down
\* while rows are 'new' comes to search the table from the initial
\* line-in-the-sand, whether or not anyone else sends a notification.
PrimingSweepsBacklog ==
  /\ [](\A w \in Workers :
          /\ pc[w] = "down" => (~notified[w] /\ ~listening[w])
          /\ notified[w] => listening[w])
  /\ [][\A w \in Workers :
          /\ (pc[w] = "down" /\ pc'[w] # "down") =>
               /\ pc'[w] = "idle"
               /\ listening'[w] /\ notified'[w]
               /\ line'[w] = LineStart
          /\ (pc[w] = "idle" /\ pc'[w] = "search") =>
               notified[w] /\ ~notified'[w]]_vars
  /\ \A w \in Workers :
       (pc[w] = "down" /\ \E i \in RowIds : request_queue[i].request_status = "new")
         ~> (pc[w] = "search" /\ line[w] = LineStart /\ ~worked[w])

\* The table was filled while no process was listening; one process has
\* started and is searching the backlog from the initial line-in-the-sand.
BacklogSwept ==
  \E w \in Workers :
    /\ pc[w] = "search" /\ line[w] = LineStart /\ ~worked[w]
    /\ \A v \in Workers \ {w} : pc[v] = "down"
    /\ Len(request_queue) = MaxRows
    /\ \A i \in RowIds : /\ request_queue[i].request_status = "new"
                         /\ \A v \in Workers : i \notin locks[v]

----------------------------------------------------------------------------
\* Waiting, deadlock, the unique index.

\* C19. No process waits for a lock: a process that is searching, checking
\* the create request, grouping, working or settling can take its next step
\* at once, whatever the other processes hold, and a process that is down
\* can start; the one state in which a process can take no step is the idle
\* state with no notification pending. So no set of processes that are not
\* idle block one another.
NeverWaits ==
  \A w \in Workers :
    /\ pc[w] = "search" => ENABLED (Search(w) \/ NoMoreRows(w))
    /\ pc[w] = "validate" => ENABLED (Validate(w) \/ ValidateLocked(w))
    /\ pc[w] = "group" => ENABLED (GroupUp(w) \/ GroupUpLocked(w))
    /\ pc[w] = "work" => ENABLED Work(w)
    /\ pc[w] = "settle" => ENABLED Settle(w)
    /\ pc[w] = "down" => ENABLED Start(w)
    /\ (ENABLED BackEnd(w)) <=> ~(pc[w] = "idle" /\ ~notified[w])

\* The group-up of one process meets a row locked to another process, which
\* is doing its work or settling; neither of them waits.
LockedOutNotWaiting ==
  \E w \in Workers, v \in Workers :
    /\ w # v
    /\ LockConflict(w) /\ pc[w] = "group"
    /\ pc[v] \in {"work", "settle"}
    /\ locks[v] # {}

\* The create requests of the spreadsheet that are 'new' or in-progress.
OpenCreates(sid) ==
  {i \in RowIds : /\ request_queue[i].request_type = "create"
                  /\ request_queue[i].spreadsheet_id = sid
                  /\ RowStatus(i) \in {"new", "in-progress"}}

\* C20. At most one create request of a spreadsheet is 'new' or in-progress
\* at any time; while there is one, the INSERT of another create request for
\* the spreadsheet is rejected (it is no step: the table stays as it is), and
\* every row that is inserted leaves the rows before it unchanged.
OneOpenCreate ==
  /\ [](\A sid \in Spreadsheets :
          /\ Cardinality(OpenCreates(sid)) <= 1
          /\ OpenCreates(sid) # {} => ~ENABLED Enqueue("create", sid))
  /\ [][Len(request_queue') # Len(request_queue) =>
          /\ Len(request_queue') = Len(request_queue) + 1
          /\ \A i \in RowIds : request_queue'[i] = request_queue[i]
          /\ LET row == request_queue'[Len(request_queue')]
             IN /\ row.request_status = "new"
                /\ row.request_type = "create" => OpenCreates(row.spreadsheet_id) = {}]_vars

\* A create request is in-progress, an update request of the same spreadsheet
\* was inserted after it, and the table has room for another row.
CreateOpenWithRoom ==
  \E w \in Workers, i \in RowIds, j \in RowIds :
    /\ i < j
    /\ Len(request_queue) < MaxRows
    /\ pc[w] = "work" /\ found[w] = i
    /\ i \in OpenCreates(request_queue[i].spreadsheet_id)
    /\ request_queue[j].request_type = "update"
    /\ request_queue[j].spreadsheet_id = request_queue[i].spreadsheet_id

----------------------------------------------------------------------------
\* The work, the order of the requests, the two example flows.

FifoSingleWorker ==
  [][\A i \in RowIds, j \in RowIds :
       (i < j /\ RowStatus(i) = "new" /\ RowStatus(j) = "new"
          /\ RowStatus(j)' = "in-progress") =>
         RowStatus(i)' = "in-progress"]_vars

\* C22, amended. With a single process a step takes a later 'new' row to
\* in-progress while an earlier row stays 'new' only in the group-up, for an
\* update request of the spreadsheet of the request found, the request found
\* being before both rows and the earlier row not being an update request of
\* that spreadsheet; the rows the search itself returns come in the order of
\* their identities.
FifoButForGroups ==
  [][\A i \in RowIds, j \in RowIds :
       (i < j /\ RowStatus(i) = "new" /\ RowStatus(j) = "new"
          /\ RowStatus(j)' = "in-progress" /\ RowStatus(i)' # "in-progress") =>
         /\ pc[Solo] = "group" /\ pc'[Solo] = "work"
         /\ found[Solo] < i
         /\ request_queue[j].request_type = "update"
         /\ request_queue[j].spreadsheet_id = request_queue[found[Solo]].spreadsheet_id
         /\ ~(/\ request_queue[i].request_type = "update"
              /\ request_queue[i].spreadsheet_id = request_queue[j].spreadsheet_id)]_vars

\* The single process works on a group of update requests that took a later
\* row ahead of an earlier row, which is still 'new'.
GroupJumpedTheQueue ==
  \E i \in RowIds, j \in RowIds :
    /\ i < j
    /\ pc[Solo] = "work"
    /\ found[Solo] < i
    /\ j \in Allocated(Solo)
    /\ RowStatus(i) = "new"
    /\ \A v \in Workers \ {Solo} : pc[v] = "down"

\* The create request of the spreadsheet of the row is committed 'complete'.
CreateComplete(i) ==
  \E c \in RowIds :
    /\ request_queue[c].request_type = "create"
    /\ request_queue[c].spreadsheet_id = request_queue[i].spreadsheet_id
    /\ request_queue[c].request_status = "complete"

\* C23. The flow of Process B: while the create request of a spreadsheet is
\* not settled and locked to another process, a process that has found an
\* update request of that spreadsheet can only ROLLBACK: the row is 'new'
\* again, nothing is allocated to it, its line-in-the-sand moves to the row
\* and the turn counts no work for it; when a group-up succeeds it takes all
\* the outstanding update requests of the spreadsheet for the one process;
\* and once the create request is 'complete', every update request of the
\* spreadsheet that is 'new' is eventually allocated to a process that goes
\* on to the work.
UpdatesFollowCreate ==
  /\ [][\A w \in Workers :
          /\ (pc[w] = "validate" /\ LockConflict(w) /\ pc'[w] # "validate") =>
               /\ pc'[w] = "search"
               /\ line'[w] = found[w]
               /\ worked'[w] = worked[w]
               /\ Allocated(w)' = {}
               /\ \A i \in RowIds : i = found[w] => RowStatus(i)' = "new"
          /\ (pc[w] = "group" /\ pc'[w] = "work") =>
               /\ Allocated(w)' = GroupOf(w)
               /\ \A v \in Workers \ {w} : Allocated(v)' \cap GroupOf(w) = {}]_vars
  /\ \A i \in 1..MaxRows :
       (/\ i \in RowIds
        /\ request_queue[i].request_type = "update"
        /\ request_queue[i].request_status = "new"
        /\ CreateComplete(i))
         ~> Claimed(i)

\* Process v is creating the spreadsheet (row 1); process w found each of its
\* update requests in turn, rolled each back, and stands after the last of
\* them with no work performed in the turn.
AbortedOnEachUpdate ==
  \E w \in Workers, v \in Workers :
    /\ w # v
    /\ Len(request_queue) = MaxRows
    /\ pc[v] = "work" /\ request_queue[found[v]].request_type = "create"
    /\ pc[w] = "search" /\ ~worked[w] /\ line[w] = Len(request_queue)
    /\ \A i \in RowIds \ {found[v]} :
         /\ request_queue[i].request_type = "update"
         /\ request_queue[i].spreadsheet_id = request_queue[found[v]].spreadsheet_id
         /\ request_queue[i].request_status = "new"
         /\ \A u \in Workers : i \notin locks[u]

\* C24. The flow of identity 5, with a single process: when the create
\* request of the spreadsheet is 'complete', the check of the create request
\* of an update request passes (no ROLLBACK), and an update request of the
\* spreadsheet that is 'new' is eventually allocated to the process, worked
\* on and brought to the settlement, whose COMMIT leaves it 'complete' when
\* the work succeeded.
UpdateAfterCreateSettles ==
  /\ [][(pc[Solo] = "validate" /\ CreateComplete(found[Solo]) /\ pc'[Solo] # "validate") =>
          /\ pc'[Solo] = "group"
          /\ locks'[Solo] = locks[Solo]
          /\ Allocated(Solo)' = Allocated(Solo)]_vars
  /\ \A i \in 1..MaxRows :
       (/\ i \in RowIds
        /\ request_queue[i].request_type = "update"
        /\ request_queue[i].request_status = "new"
        /\ CreateComplete(i))
         ~> (i \in Allocated(Solo) /\ pc[Solo] = "settle")
  /\ \A i \in 1..MaxRows :
       (i \in Allocated(Solo) /\ pc[Solo] = "settle" /\ outcome[Solo] = "complete")
         ~> (i \in RowIds /\ request_queue[i].request_status = "complete")

\* The create request of a spreadsheet and, under a later process id, an
\* update request of it are both 'complete', and the process is idle.
CreateThenUpdateComplete ==
  \E c \in RowIds, i \in RowIds :
    /\ c < i
    /\ request_queue[c].request_type = "create"
    /\ request_queue[i].request_type = "update"
    /\ request_queue[c].spreadsheet_id = request_queue[i].spreadsheet_id
    /\ request_queue[c].request_status = "complete"
    /\ request_queue[i].request_status = "complete"
    /\ request_queue[c].process_id # request_queue[i].process_id
    /\ pc[Solo] = "idle" /\ ~notified[Solo]

\* The process passed the queue check and has not deleted its queue row.
Admitted(p) == tpc[p] = "working"

\* C25. Isolation of the ticket queue: no two processes are admitted to the
\* locked entity at the same time.
Isolation ==
  \A p \in Processes, q \in Processes :
    (Admitted(p) /\ Admitted(q)) => p = q

\* C26. FIFO of the ticket queue: processes are admitted in ascending order
\* of their ticket numbers; a queue check admits no process while a process
\* with a higher ticket number has been admitted already.
AscendingAdmission ==
  [][\A p \in Processes :
       (tpc[p] = "waiting" /\ tpc'[p] = "working") =>
         \A q \in Processes \ {p} :
           tpc[q] \in {"working", "done"} => ticket[q] < ticket[p]]_vars

\* C27. Ticket numbers are unique: no two processes obtain the same ticket
\* number from the atomic counter, whether by the update, the seeding put
\* or the retried update.
TicketsUnique ==
  \A p \in Processes, q \in Processes :
    (p # q /\ ticket[p] # NoTicket /\ ticket[q] # NoTicket) => ticket[p] # ticket[q]

\* The counter row did not exist: one process seeded it, the put of a second
\* process failed and it stands before the retry of the update, and a third
\* process obtained a later ticket number.
SeedRaceDecided ==
  \E p \in Processes, q \in Processes, r \in Processes :
    /\ ticket[p] = FirstTicket
    /\ tpc[q] = "retry"
    /\ ticket[r] > FirstTicket

\* Every process that obtained a ticket number before process p failed or
\* completed, and every queue row before the row of p is expired.
FrontIsDead(p) ==
  /\ tpc[p] = "waiting"
  /\ ticket[p] \in DOMAIN queue
  /\ ~Expired(ticket[p])
  /\ \E t \in DOMAIN queue : t < ticket[p]
  /\ \A t \in DOMAIN queue : t < ticket[p] => Expired(t)
  /\ \A q \in Processes :
       (ticket[q] # NoTicket /\ ticket[q] < ticket[p]) => tpc[q] \in {"crashed", "done"}

\* C28. Fault tolerance of the ticket queue: when the rows before the row of
\* a waiting process are expired, its queue check passes over them and
\* admits it; and when the processes before it are dead and their rows
\* expired, it is eventually admitted (unless it fails itself), whether the
\* expired rows are removed or not.
DeadFrontIgnored ==
  /\ [](\A p \in Processes :
          (/\ tpc[p] = "waiting"
           /\ ticket[p] \in DOMAIN queue
           /\ ~Expired(ticket[p])
           /\ \A t \in DOMAIN queue : t < ticket[p] => Expired(t))
            => CheckPosition(p))
  /\ \A p \in Processes : FrontIsDead(p) ~> (tpc[p] \in {"working", "crashed"})

\* A process is admitted while the expired row of a failed process with a
\* lower ticket number is still in the queue.
AdmittedPastDeadRow ==
  \E p \in Processes, q \in Processes :
    /\ tpc[p] = "working"
    /\ tpc[q] = "crashed"
    /\ ticket[q] \in DOMAIN queue
    /\ ticket[q] < ticket[p]
    /\ Expired(ticket[q])

TurnEnds(w) ==
  /\ pc[w] = "search"
  /\ \/ pc'[w] = "idle"
     \/ worked[w] /\ ~worked'[w] /\ pc'[w] = "search"

\* C30. The line-in-the-sand has its initial value when a process starts,
\* while it is idle and when it leaves the idle state on a notification, and
\* at the start of the turn that follows a complete turn; within a turn no
\* step of the running process sets it back.
LineInTheSand ==
  /\ [](\A w \in Workers : pc[w] \in {"down", "idle"} => line[w] = LineStart)
  /\ [][\A w \in Workers :
          /\ (pc[w] = "down" /\ pc'[w] # "down") => line'[w] = LineStart
          /\ (pc[w] = "idle" /\ pc'[w] # "idle") => line'[w] = LineStart
          /\ TurnEnds(w) => line'[w] = LineStart
          /\ (pc[w] \notin {"down", "idle"} /\ pc'[w] # "down" /\ ~TurnEnds(w)) =>
               line'[w] >= line[w]]_vars

\* Process w stands within a turn, its line past a request it settled or
\* rolled back, while process v stands at the start of a turn with its line
\* at the initial value, and a request of the table is settled.
NewTurnBesideOpenTurn ==
  \E w \in Workers, v \in Workers :
    /\ w # v
    /\ pc[w] = "search" /\ line[w] > LineStart
    /\ pc[v] = "search" /\ line[v] = LineStart /\ ~worked[v]
    /\ \E i \in RowIds : request_queue[i].request_status \in Settled

\* C31. After the settlement of a successful allocation is committed, the
\* line-in-the-sand of the process is the request the search returned, and
\* its next search of the turn considers only requests after it.
LineAdvancesOnSuccess ==
  [][\A w \in Workers :
       (pc[w] = "settle" /\ pc'[w] = "search") =>
         /\ line'[w] = found[w]
         /\ \A i \in SearchWhere(w)' : i > found[w]
         /\ SearchedUpdate(w)' # NoRow => SearchedUpdate(w)' > found[w]]_vars

\* Process w has settled the request at its line-in-the-sand and stands before
\* the next search of the turn, while a request before it is 'new', unlocked
\* and left for the next turn.
EarlierRowLeftForNextTurn ==
  \E w \in Workers, i \in RowIds :
    /\ pc[w] = "search" /\ worked[w]
    /\ line[w] \in RowIds
    /\ request_queue[line[w]].request_status \in Settled
    /\ i < line[w]
    /\ request_queue[i].request_status = "new"
    /\ \A v \in Workers : i \notin locks[v]

\* C32. The row locks of a process last as long as its transaction: a
\* process that is down, idle, or between two transactions (before its next
\* search, after a COMMIT, a ROLLBACK or its death) holds no row lock and has
\* no pending change, whichever rows its transaction had locked.
LocksEndWithTransaction ==
  \A w \in Workers :
    pc[w] \in {"down", "idle", "search"} =>
      /\ locks[w] = {}
      /\ uncommitted[w] = NoChanges

\* Process w committed a transaction that had locked the 'new' create request
\* of a spreadsheet (by the SELECT ... FOR UPDATE NOWAIT) and two update
\* requests of it (by the group-up); it stands before its next search and no
\* process holds a lock on any of the three rows.
ProbeAndGroupUnlocked ==
  \E w \in Workers, c \in RowIds, i \in RowIds, j \in RowIds :
    /\ pc[w] = "search" /\ worked[w] /\ line[w] \in {i, j}
    /\ c < i /\ i < j
    /\ request_queue[c].request_type = "create"
    /\ request_queue[c].request_status = "new"
    /\ request_queue[i].request_type = "update"
    /\ request_queue[j].request_type = "update"
    /\ request_queue[i].spreadsheet_id = request_queue[c].spreadsheet_id
    /\ request_queue[j].spreadsheet_id = request_queue[c].spreadsheet_id
    /\ request_queue[i].request_status \in Settled
    /\ request_queue[i].process_id = request_queue[j].process_id
    /\ request_queue[j].request_status \in Settled
    /\ \A v \in Workers : locks[v] \cap {c, i, j} = {}

\* C33. Within a turn the requests returned by the successive searches of a
\* process have strictly increasing identifiers: every search returns a
\* request after the line-in-the-sand, and the ROLLBACK or the settlement of
\* the request moves the line to it. The line is never past the last row of
\* the table, and a running process whose line stands at k moves its line on
\* or ends the turn: it does not return to a request it could not process.
TurnAdvances ==
  /\ [](\A w \in Workers : line[w] \in 0..Len(request_queue))
  /\ [][\A w \in Workers :
          /\ (pc[w] = "search" /\ pc'[w] \in {"validate", "work"}) =>
               found'[w] > line[w] /\ line'[w] = line[w]
          /\ (pc[w] \in {"validate", "group", "settle"} /\ pc'[w] = "search") =>
               line'[w] = found[w] /\ line'[w] > line[w]]_vars
  /\ \A w \in Workers, k \in 0..MaxRows :
       (pc[w] \notin {"down", "idle"} /\ line[w] = k)
         ~> (line[w] > k \/ line[w] < k \/ pc[w] = "idle")

\* Process w rolled back the 'new' update request at its line-in-the-sand
\* (process v holds the create request of the spreadsheet); the row is
\* unlocked and 'new' again, the search of w returns no row after it, and the
\* turn of w is about to end.
TurnEndsPastBlockedRow ==
  \E w \in Workers, v \in Workers :
    /\ w # v
    /\ pc[w] = "search" /\ ~worked[w]
    /\ line[w] \in RowIds
    /\ request_queue[line[w]].request_type = "update"
    /\ request_queue[line[w]].request_status = "new"
    /\ \A u \in Workers : line[w] \notin locks[u]
    /\ SearchedUpdate(w) = NoRow
    /\ pc[v] = "work" /\ request_queue[found[v]].request_type = "create"
    /\ request_queue[found[v]].spreadsheet_id = request_queue[line[w]].spreadsheet_id

\* A request is committed 'new' and locked to no process.
UnlockedNew(i) ==
  /\ request_queue[i].request_status = "new"
  /\ \A w \in Workers : i \notin locks[w]

\* C34. No lost wakeup: there is no state in which a back-end is listening,
\* every listening back-end is idle with no notification to awaken it, and a
\* 'new' request that no process has locked remains in the table. (Under
\* ListeningSpec every request is written after every listening back-end began
\* to listen.)
NoLostWakeup ==
  ~(/\ \E w \in Workers : listening[w]
    /\ \A w \in Workers : listening[w] => (pc[w] = "idle" /\ ~notified[w])
    /\ \E i \in RowIds : UnlockedNew(i))

\* The queue rows whose expiration is not in the past.
Unexpired == {t \in DOMAIN queue : ~Expired(t)}

\* The first of them in ascending order of the sort key is the row of p.
FirstUnexpiredIsOwn(p) ==
  /\ Unexpired # {}
  /\ \A t \in Unexpired : ticket[p] <= t
  /\ ticket[p] \in Unexpired

\* C35. The position check returns true exactly when the first queue row, in
\* ascending order, whose expiration is not in the past is the row of the
\* caller; expired rows before it do not make it fail, and a process is
\* admitted by a queue check only then.
PositionCheck ==
  /\ [](\A p \in Processes : CheckPosition(p) <=> FirstUnexpiredIsOwn(p))
  /\ [][\A p \in Processes :
          (tpc[p] = "waiting" /\ tpc'[p] = "working") => FirstUnexpiredIsOwn(p)]_vars

\* The check of the waiting process p returns true past the expired row of a
\* lower ticket number, and the check of the waiting process q, whose row is
\* not expired and stands behind the row of p, returns false.
CheckedPastExpiredRow ==
  \E p \in Processes, q \in Processes, t \in DOMAIN queue :
    /\ tpc[p] = "waiting" /\ tpc[q] = "waiting"
    /\ t < ticket[p] /\ Expired(t)
    /\ CheckPosition(p)
    /\ ticket[q] \in Unexpired
    /\ ticket[p] < ticket[q]
    /\ ~CheckPosition(q)

\* C36. The seeding of the ticket counter terminates: a process makes at
\* most the update, the put and one retry of the update, in this order; the
\* retried update finds the counter row and never fails; and every process
\* that does not crash obtains a ticket number.
SeedingTerminates ==
  /\ [](\A p \in Processes :
          /\ tpc[p] # "failed"
          /\ tpc[p] = "retry" => counter # NoCounter
          /\ tpc[p] \in {"enqueue", "waiting", "working", "done"} => ticket[p] # NoTicket)
  /\ [][\A p \in Processes :
          /\ tpc'[p] = "start" => tpc[p] = "start"
          /\ tpc'[p] = "seed" => tpc[p] \in {"start", "seed"}
          /\ tpc'[p] = "retry" => tpc[p] \in {"seed", "retry"}]_vars
  /\ \A p \in Processes :
       (tpc[p] \in {"start", "seed", "retry"})
         ~> (ticket[p] # NoTicket \/ tpc[p] = "crashed")

\* The counter row did not exist and all processes compete: one seeded it
\* and has ticket number 1, the put of another failed and it stands before
\* the retry, and a third, whose update failed, stands before its put.
SeedRaceOpen ==
  \E p \in Processes, q \in Processes, r \in Processes :
    /\ ticket[p] = FirstTicket /\ counter = FirstTicket
    /\ tpc[q] = "retry"
    /\ tpc[r] = "seed"

====
